---- MODULE Spec2Model ----
(***************************************************************************)
(* A state-machine model of the prompt-template editor in src/src/App.js.  *)
(*                                                                         *)
(* Text is modelled as a sequence of one-character strings, so that trim,  *)
(* toLowerCase, includes, split and join are computed as the code computes *)
(* them.  Template ids are compared only for equality and are TLA+ strings.*)
(* localStorage items and uploaded files are JSON texts; a text is either  *)
(* missing, unparsable, or the serialisation of a value.                   *)
(*                                                                         *)
(* One step of the model is one event of the page: a handler runs, React   *)
(* renders, and the two useEffect callbacks write localStorage, before the *)
(* next event is taken.  A file read is two events, the click that starts  *)
(* it and the FileReader's onload.                                         *)
(*                                                                         *)
(* Three specifications share the model.  Spec is the editor as a whole,   *)
(* with the library's two query boxes left empty.  SpecFilter varies the   *)
(* library and its queries, SpecAssemble the Draft that is assembled.      *)
(* exportTemplates and the preview's Copy button change none of the state  *)
(* modelled here and have no action.                                       *)
(***************************************************************************)
EXTENDS Integers, Sequences, FiniteSets, TLC

\* ------------------------------------------------------------------ bounds
\* Date.now() returns one of the values 1..MaxNow.
MaxNow == 2
\* Most events (handler runs, page loads) in one behaviour.
MaxEvents == 4

\* --------------------------------------------------------- JavaScript text
Whitespace == {" ", "\n", "\t", "\r"}

UpperCase == <<"A","B","C","D","E","F","G","H","I","J","K","L","M",
               "N","O","P","Q","R","S","T","U","V","W","X","Y","Z">>
LowerCase == <<"a","b","c","d","e","f","g","h","i","j","k","l","m",
               "n","o","p","q","r","s","t","u","v","w","x","y","z">>

\* String.prototype.toLowerCase, one character.
lowerChar(c) ==
  IF \E i \in 1..Len(UpperCase) : UpperCase[i] = c
    THEN LowerCase[CHOOSE i \in 1..Len(UpperCase) : UpperCase[i] = c]
    ELSE c

\* String.prototype.toLowerCase
toLowerCase(s) == [i \in 1..Len(s) |-> lowerChar(s[i])]

RECURSIVE trimStart(_)
trimStart(s) ==
  IF s = <<>> THEN <<>>
  ELSE IF Head(s) \in Whitespace THEN trimStart(Tail(s)) ELSE s

RECURSIVE trimEnd(_)
trimEnd(s) ==
  IF s = <<>> THEN <<>>
  ELSE IF s[Len(s)] \in Whitespace THEN trimEnd(SubSeq(s, 1, Len(s) - 1)) ELSE s

\* String.prototype.trim
trim(s) == trimEnd(trimStart(s))

\* String.prototype.includes
includes(s, q) ==
  \E i \in 0..(Len(s) - Len(q)) : SubSeq(s, i + 1, i + Len(q)) = q

\* Array.prototype.join
RECURSIVE join(_, _)
join(items, sep) ==
  IF items = <<>> THEN <<>>
  ELSE IF Len(items) = 1 THEN items[1]
  ELSE items[1] \o sep \o join(Tail(items), sep)

\* String.prototype.split on a one-character separator
RECURSIVE splitFrom(_, _, _)
splitFrom(s, sep, cur) ==
  IF s = <<>> THEN <<cur>>
  ELSE IF Head(s) = sep THEN <<cur>> \o splitFrom(Tail(s), sep, <<>>)
  ELSE splitFrom(Tail(s), sep, Append(cur, Head(s)))

split(s, sep) == splitFrom(s, sep, <<>>)

\* v || d for a string v: the empty string is falsy
orElse(v, d) == IF v = <<>> THEN d ELSE v

\* -------------------------------------------------------------------- JSON
\* A JSON text: kind "none" (no item under the key), "text" (does not parse)
\* or "json" (parses); array tells whether the top-level value is an array;
\* val is the array, or the one-element sequence holding the object.
NoItem == [kind |-> "none", array |-> FALSE, val |-> <<>>]
Unparsable == [kind |-> "text", array |-> FALSE, val |-> <<>>]

\* JSON.stringify of an array of templates
stringifyArray(ts) == [kind |-> "json", array |-> TRUE, val |-> ts]
\* JSON.stringify of one object
stringifyObject(o) == [kind |-> "json", array |-> FALSE, val |-> <<o>>]

\* raw ? JSON.parse(raw) : fallback, inside try/catch returning fallback
parseOr(raw, fallback) == IF raw.kind = "json" THEN raw.val ELSE fallback

\* ------------------------------------------------------------ seed templates
\* SeedResearchBrief  (id 'research-brief', name 'Research Brief')
SeedResearchBrief ==
  [id |-> "research-brief",
   name |-> <<"R","e","s","e","a","r","c","h"," ","B","r","i","e","f">>,
   tags |-> <<<<"r","e","s","e","a","r","c","h">>,
       <<"a","n","a","l","y","s","i","s">>>>,
   context |->
     <<"Y","o","u"," ","a","r","e"," ","a","n"," ","e","x","p","e","r","t"," ","r","e","s","e","a","r","c","h","e","r"," ","s","y","n","t","h","e","s","i","z","i","n","g"," ","c","r","e","d","i","b","l","e"," ","s","o","u","r","c","e","s"," ","i","n","t","o"," ","c","o","n","c","i","s","e",","," ","a","c","t","i","o","n","a","b","l","e"," ","i","n","s","i","g","h","t","s",".">>,
   task |->
     <<"A","n","a","l","y","z","e"," ","t","h","e"," ","t","o","p","i","c"," ","a","n","d"," ","p","r","o","d","u","c","e"," ","a"," ","s","t","r","u","c","t","u","r","e","d"," ","b","r","i","e","f"," ","w","i","t","h"," ","k","e","y"," ","f","i","n","d","i","n","g","s"," ","a","n","d"," ","i","m","p","l","i","c","a","t","i","o","n","s",".">>,
   rules |->
     <<<<"C","i","t","e"," ","f","a","c","t","s"," ","w","i","t","h"," ","s","o","u","r","c","e"," ","n","a","m","e","s",".">>,
       <<"B","e"," ","c","o","n","c","i","s","e"," ","a","n","d"," ","n","e","u","t","r","a","l",".">>,
       <<"C","a","l","l"," ","o","u","t"," ","u","n","c","e","r","t","a","i","n","t","y",".">>>>,
   format |->
     <<"S","e","c","t","i","o","n","s",":"," ","S","u","m","m","a","r","y",","," ","K","e","y"," ","F","i","n","d","i","n","g","s",","," ","R","i","s","k","s","/","U","n","k","n","o","w","n","s",","," ","R","e","f","e","r","e","n","c","e","s">>,
   examples |->
     <<<<"E","x","a","m","p","l","e",":"," ","F","o","r"," ","E","T","H"," ","s","t","a","k","i","n","g",","," ","s","u","m","m","a","r","i","z","e"," ","y","i","e","l","d"," ","r","a","n","g","e","s",","," ","s","l","a","s","h","i","n","g"," ","r","i","s","k","s",","," ","p","r","o","v","i","d","e","r","s",","," ","a","n","d"," ","r","e","g","s",".">>>>]

\* SeedCodeReview  (id 'code-review', name 'Code Review Helper')
SeedCodeReview ==
  [id |-> "code-review",
   name |-> <<"C","o","d","e"," ","R","e","v","i","e","w"," ","H","e","l","p","e","r">>,
   tags |-> <<<<"c","o","d","i","n","g">>,
       <<"r","e","v","i","e","w">>>>,
   context |->
     <<"Y","o","u"," ","a","r","e"," ","a"," ","s","e","n","i","o","r"," ","e","n","g","i","n","e","e","r"," ","r","e","v","i","e","w","i","n","g"," ","a"," ","P","R"," ","f","o","r"," ","c","o","r","r","e","c","t","n","e","s","s"," ","a","n","d"," ","m","a","i","n","t","a","i","n","a","b","i","l","i","t","y",".">>,
   task |->
     <<"I","d","e","n","t","i","f","y"," ","i","s","s","u","e","s",","," ","s","u","g","g","e","s","t"," ","c","o","n","c","r","e","t","e"," ","f","i","x","e","s",","," ","a","n","d"," ","n","o","t","e"," ","p","o","t","e","n","t","i","a","l"," ","r","e","f","a","c","t","o","r","s",".">>,
   rules |->
     <<<<"B","e"," ","s","p","e","c","i","f","i","c"," ","w","i","t","h"," ","f","i","l","e","/","l","i","n","e"," ","w","h","e","n"," ","p","o","s","s","i","b","l","e",".">>,
       <<"P","r","e","f","e","r"," ","m","i","n","i","m","a","l",","," ","s","a","f","e"," ","e","d","i","t","s",".">>,
       <<"E","x","p","l","a","i","n"," ","r","a","t","i","o","n","a","l","e",".">>>>,
   format |->
     <<"S","e","c","t","i","o","n","s",":"," ","S","u","m","m","a","r","y",","," ","I","s","s","u","e","s",","," ","S","u","g","g","e","s","t","i","o","n","s",","," ","T","e","s","t","s"," ","t","o"," ","A","d","d">>,
   examples |->
     <<<<"E","x","a","m","p","l","e",":"," ","I","d","e","n","t","i","f","y"," ","u","n","r","e","a","c","h","a","b","l","e"," ","b","r","a","n","c","h","e","s"," ","a","n","d"," ","s","u","g","g","e","s","t"," ","g","u","a","r","d"," ","c","l","a","u","s","e","s",".">>>>]

\* SeedBrainstorm  (id 'brainstorm', name 'Brainstorming')
SeedBrainstorm ==
  [id |-> "brainstorm",
   name |-> <<"B","r","a","i","n","s","t","o","r","m","i","n","g">>,
   tags |-> <<<<"i","d","e","a","t","i","o","n">>,
       <<"c","r","e","a","t","i","v","e">>>>,
   context |->
     <<"Y","o","u"," ","a","r","e"," ","a"," ","c","r","e","a","t","i","v","e"," ","p","a","r","t","n","e","r"," ","p","r","o","d","u","c","i","n","g"," ","u","n","c","o","n","v","e","n","t","i","o","n","a","l"," ","b","u","t"," ","f","e","a","s","i","b","l","e"," ","i","d","e","a","s",".">>,
   task |->
     <<"G","e","n","e","r","a","t","e"," ","o","p","t","i","o","n","s"," ","t","h","a","t"," ","v","a","r","y"," ","b","y"," ","c","o","m","p","l","e","x","i","t","y",","," ","c","o","s","t",","," ","a","n","d"," ","r","i","s","k",".">>,
   rules |->
     <<<<"L","i","s","t"," ","p","r","o","s","/","c","o","n","s"," ","f","o","r"," ","e","a","c","h"," ","i","d","e","a",".">>,
       <<"I","n","c","l","u","d","e"," ","o","n","e"," ","w","e","i","r","d"," ","b","u","t"," ","p","l","a","u","s","i","b","l","e"," ","i","d","e","a",".">>>>,
   format |->
     <<"T","a","b","l","e",":"," ","I","d","e","a",","," ","R","a","t","i","o","n","a","l","e",","," ","P","r","o","s",","," ","C","o","n","s",","," ","N","e","x","t"," ","S","t","e","p">>,
   examples |->
     <<<<"E","x","a","m","p","l","e",":"," ","G","r","o","w","t","h"," ","i","d","e","a","s"," ","f","o","r"," ","a"," ","n","i","c","h","e"," ","D","e","F","i"," ","a","n","a","l","y","t","i","c","s"," ","t","o","o","l",".">>>>]
DEFAULT_TEMPLATES == <<SeedResearchBrief, SeedCodeReview, SeedBrainstorm>>


STORAGE_KEYS == [TEMPLATES |-> "apt.templates.v1", LAST |-> "apt.last.v1"]

\* ------------------------------------------------------------------- inputs
\* A template with the given id and name and every other field empty.
Tpl(id, nm) ==
  [id |-> id, name |-> nm, tags |-> <<>>, context |-> <<>>, task |-> <<>>,
   rules |-> <<>>, format |-> <<>>, examples |-> <<>>]

\* Values typed into the name input and the context/task/format textareas.
NameInputs == {<<>>, <<"n">>}
TextInputs == {<<"x">>}
\* Entries submitted to the tag input (blank, and a tag with a leading space).
TagEntries == {<<" ">>, <<" ", "g">>}
\* Texts typed into the rules/examples textareas.
ListInputs == {<<" ", "r", "\n", " ">>}
\* Contents of the files chosen for import: a text that is not JSON, a JSON
\* object, and a JSON array of two templates that share the id "2" (an id of
\* the form the editor mints).
ImportFiles ==
  { Unparsable,
    stringifyObject(Tpl("obj", <<"o">>)),
    stringifyArray(<<Tpl("2", <<"a">>), Tpl("2", <<"b">>)>>) }

\* -------------------------------------------------------------------- state
VARIABLES
  templates,    \* useLocalStorageTemplates: the Repository collection
  active,       \* <<>> for null, else <<[id |-> t.id]>> for the object t
                \* the Draft is linked to: after the first render the code
                \* reads no property of active but its id
  name, tags, context, task, rules, format, examples,   \* the Draft's fields
  search, tagFilter, showLibrary,                       \* library view state
  lsTemplates,  \* localStorage item under STORAGE_KEYS.TEMPLATES
  lsLast,       \* localStorage item under STORAGE_KEYS.LAST
  reading,      \* contents of the files whose FileReader has not loaded yet
  alertMsg,     \* message shown by window.alert in the latest event, or ""
  events,       \* events handled so far
  ev            \* the latest event: its handler, argument and outcome

vars == <<templates, active, name, tags, context, task, rules, format, examples,
          search, tagFilter, showLibrary, lsTemplates, lsLast, reading,
          alertMsg, events, ev>>

draftVars == <<active, name, tags, context, task, rules, format, examples>>
viewVars == <<search, tagFilter, showLibrary>>

\* active?.id
activeId(a) == IF a = <<>> THEN "" ELSE a[1].id

\* The record of an event: the handler, the id it was given or chose, its
\* outcome, the file it read, and the Draft's link when it started.
Event(op, id, ok, file) ==
  [op |-> op, id |-> id, ok |-> ok, file |-> file, link |-> activeId(active)]

\* setActive(t), keeping the one property of t that is read later
linkTo(t) == <<[id |-> t.id]>>

\* The event record of a page that has just been mounted.
Mounted ==
  [op |-> "mount", id |-> "", ok |-> TRUE, file |-> NoItem, link |-> ""]

\* ------------------------------------------------------------------ effects
\* A faulty templates effect that writes the collection of the render before
\* the change (a stale closure);
\* C2 does not hold of an editor with this effect.
templatesEffectStale(ts) == stringifyArray(templates)

\* useEffect(..., [templates]): the collection is written after every render
\* in which it changed.
templatesEffect(ts) == stringifyArray(ts)

\* A faulty autosave effect that always writes the sentinel id, dropping the
\* Draft's link;
\* C7 does not hold with it.
lastEffectUnlinked(a, n, tg, c, tk, r, f, e) ==
  stringifyObject([id |-> "unsaved",
                   name |-> n, tags |-> tg, context |-> c, task |-> tk,
                   rules |-> r, format |-> f, examples |-> e])

\* useEffect(..., [active,name,...]): the autosave slot.
lastEffect(a, n, tg, c, tk, r, f, e) ==
  stringifyObject([id |-> IF activeId(a) = "" THEN "unsaved" ELSE activeId(a),
                   name |-> n, tags |-> tg, context |-> c, task |-> tk,
                   rules |-> r, format |-> f, examples |-> e])

\* Both effects, run at the end of the event that changed the state.
Effects ==
  /\ lsTemplates' = templatesEffect(templates')
  /\ lsLast' = lastEffect(active', name', tags', context', task', rules',
                          format', examples')

\* ------------------------------------------------------------ initial render
\* useState initialisers of useLocalStorageTemplates and App.
loadTemplates(raw) == parseOr(raw, DEFAULT_TEMPLATES)
loadActive(raw) == parseOr(raw, <<>>)

\* useState(active?.<field> || <empty>)
initialField(a, f) == IF a = <<>> THEN <<>> ELSE orElse(a[1][f], <<>>)

\* The state after mounting with the two stored items rawT and rawL.
Mount(rawT, rawL) ==
  LET a == loadActive(rawL) IN
  /\ templates' = loadTemplates(rawT)
  /\ active' = IF a = <<>> THEN <<>> ELSE linkTo(a[1])
  /\ name' = initialField(a, "name")
  /\ tags' = initialField(a, "tags")
  /\ context' = initialField(a, "context")
  /\ task' = initialField(a, "task")
  /\ rules' = initialField(a, "rules")
  /\ format' = initialField(a, "format")
  /\ examples' = initialField(a, "examples")
  /\ search' = <<>>
  /\ tagFilter' = <<>>
  /\ showLibrary' = TRUE
  /\ reading' = <<>>
  /\ alertMsg' = ""
  /\ Effects

\* The first page load: nothing is stored yet, or what is stored does not parse.
Init ==
  \E rawT \in {NoItem, Unparsable}, rawL \in {NoItem, Unparsable} :
    LET a == loadActive(rawL) IN
    /\ templates = loadTemplates(rawT)
    /\ active = IF a = <<>> THEN <<>> ELSE linkTo(a[1])
    /\ name = initialField(a, "name")
    /\ tags = initialField(a, "tags")
    /\ context = initialField(a, "context")
    /\ task = initialField(a, "task")
    /\ rules = initialField(a, "rules")
    /\ format = initialField(a, "format")
    /\ examples = initialField(a, "examples")
    /\ search = <<>> /\ tagFilter = <<>> /\ showLibrary = TRUE
    /\ lsTemplates = templatesEffect(templates)
    /\ lsLast = lastEffect(active, name, tags, context, task, rules, format,
                           examples)
    /\ reading = <<>>
    /\ alertMsg = ""
    /\ events = 0
    /\ ev = Mounted

\* ----------------------------------------------------------- TemplateLibrary
\* A faulty normalisation that leaves out trim();
\* C8 does not hold with it.
normalizeQueryUntrimmed(s) == toLowerCase(orElse(s, <<>>))

\* (search||'').toLowerCase().trim()
normalizeQuery(s) == trim(toLowerCase(orElse(s, <<>>)))

\* [t.name,t.context,t.task,t.format,...(t.rules||[]),...(t.examples||[])].join(' ')
searchableText(t) ==
  join(<<t.name, t.context, t.task, t.format>> \o t.rules \o t.examples, <<" ">>)

inText(t, q) == q = <<>> \/ includes(toLowerCase(searchableText(t)), q)

inTag(t, tg) ==
  tg = <<>> \/ \E i \in 1..Len(t.tags) : includes(toLowerCase(t.tags[i]), tg)

\* const filtered = useMemo(...)
filtered(ts, s, tf) ==
  LET q == normalizeQuery(s)
      tg == normalizeQuery(tf)
      keep(t) == inText(t, q) /\ inTag(t, tg)
  IN SelectSeq(ts, keep)

\* The templates whose Use/Edit/Delete buttons are on screen.
Shown ==
  IF showLibrary
    THEN {filtered(templates, search, tagFilter)[i] :
            i \in 1..Len(filtered(templates, search, tagFilter))}
    ELSE {}

\* --------------------------------------------------------------- field edits
\* Every event counts towards the bound on the length of a behaviour.
Handled ==
  /\ events < MaxEvents
  /\ events' = events + 1

\* The variables an edit of one Draft field leaves alone.
EditFrame(op) ==
  /\ Handled
  /\ ev' = Event(op, "", TRUE, NoItem)
  /\ alertMsg' = ""
  /\ UNCHANGED <<templates, active, viewVars, reading>>
  /\ Effects

\* onChange of the Name input
SetName ==
  \E v \in NameInputs :
    /\ name' = v
    /\ UNCHANGED <<tags, context, task, rules, format, examples>>
    /\ EditFrame("setName")

\* TagInput.add
addTag(tg, entry) ==
  LET v == trim(entry) IN
  IF v = <<>> THEN tg
  ELSE IF \E i \in 1..Len(tg) : tg[i] = v THEN tg ELSE Append(tg, v)

\* TagInput.remove
removeTag(tg, t) == SelectSeq(tg, LAMBDA x : x # t)

AddTag ==
  \E entry \in TagEntries :
    /\ tags' = addTag(tags, entry)
    /\ UNCHANGED <<name, context, task, rules, format, examples>>
    /\ EditFrame("addTag")

RemoveTag ==
  \E i \in 1..Len(tags) :
    /\ tags' = removeTag(tags, tags[i])
    /\ UNCHANGED <<name, context, task, rules, format, examples>>
    /\ EditFrame("removeTag")

SetContext ==
  \E v \in TextInputs :
    /\ context' = v
    /\ UNCHANGED <<name, tags, task, rules, format, examples>>
    /\ EditFrame("setContext")

SetTask ==
  \E v \in TextInputs :
    /\ task' = v
    /\ UNCHANGED <<name, tags, context, rules, format, examples>>
    /\ EditFrame("setTask")

SetFormat ==
  \E v \in TextInputs :
    /\ format' = v
    /\ UNCHANGED <<name, tags, context, task, rules, examples>>
    /\ EditFrame("setFormat")

\* MultiLineList onChange: split('\n').map(s=>s.trim()).filter(Boolean)
listItems(text) ==
  LET parts == split(text, "\n")
      trimmed == [i \in 1..Len(parts) |-> trim(parts[i])]
  IN SelectSeq(trimmed, LAMBDA x : x # <<>>)

SetRules ==
  \E text \in ListInputs :
    /\ rules' = listItems(text)
    /\ UNCHANGED <<name, tags, context, task, format, examples>>
    /\ EditFrame("setRules")

SetExamples ==
  \E text \in ListInputs :
    /\ examples' = listItems(text)
    /\ UNCHANGED <<name, tags, context, task, rules, format>>
    /\ EditFrame("setExamples")

\* ---------------------------------------------------------------- controller
\* resetEditor: setActive(null) and every field cleared
ResetEditor ==
  /\ active' = <<>>
  /\ name' = <<>> /\ tags' = <<>> /\ context' = <<>> /\ task' = <<>>
  /\ rules' = <<>> /\ format' = <<>> /\ examples' = <<>>

Untitled == <<"U","n","t","i","t","l","e","d">>

\* `${Date.now()}`
mintId(clock) == ToString(clock)

\* const id=(active?.id && active.id!=='unsaved')?active.id:`${Date.now()}`
saveId(a, clock) ==
  IF activeId(a) # "" /\ activeId(a) # "unsaved" THEN activeId(a) ELSE mintId(clock)

\* const next={ id, name: name||'Untitled', tags, context, ... }
nextTemplate(id, n, tg, c, tk, r, f, e) ==
  [id |-> id, name |-> orElse(n, Untitled), tags |-> tg, context |-> c,
   task |-> tk, rules |-> r, format |-> f, examples |-> e]

\* exists?templates.map(t=>t.id===id?next:t):[next,...templates]
insertOrReplace(ts, next) ==
  IF \E i \in 1..Len(ts) : ts[i].id = next.id
    THEN [i \in 1..Len(ts) |-> IF ts[i].id = next.id THEN next ELSE ts[i]]
    ELSE <<next>> \o ts

\* The values Date.now() can return: the wall clock, which neither advances
\* between two events that fall in the same millisecond nor is monotonic.
Clock == 1..MaxNow

saveTemplate ==
  \E clock \in Clock :
  LET id == saveId(active, clock)
      next == nextTemplate(id, name, tags, context, task, rules, format, examples)
      updated == insertOrReplace(templates, next)
  IN /\ Handled
     /\ templates' = updated
     /\ active' = linkTo(next)
     /\ ev' = Event("save", id, TRUE, NoItem)
     /\ alertMsg' = ""
     /\ UNCHANGED <<name, tags, context, task, rules, format, examples,
                    viewVars, reading>>
     /\ Effects

\* applyTemplate(t), also editTemplate(t): the Use and Edit buttons of a card
applyTemplate ==
  \E t \in Shown :
    /\ active' = linkTo(t)
    /\ name' = orElse(t.name, <<>>)
    /\ tags' = orElse(t.tags, <<>>)
    /\ context' = orElse(t.context, <<>>)
    /\ task' = orElse(t.task, <<>>)
    /\ rules' = orElse(t.rules, <<>>)
    /\ format' = orElse(t.format, <<>>)
    /\ examples' = orElse(t.examples, <<>>)
    /\ showLibrary' = FALSE
    /\ Handled
    /\ ev' = Event("apply", t.id, TRUE, NoItem)
    /\ alertMsg' = ""
    /\ UNCHANGED <<templates, search, tagFilter, reading>>
    /\ Effects

\* A faulty removal with the comparison inverted;
\* C5 does not hold with it.
removeByIdInverted(ts, id) == SelectSeq(ts, LAMBDA x : x.id = id)

\* templates.filter(x=>x.id!==t.id)
removeById(ts, id) == SelectSeq(ts, LAMBDA x : x.id # id)

\* deleteTemplate(t): the Delete button of a card; window.confirm answers ok
deleteTemplate ==
  \E t \in Shown, ok \in BOOLEAN :
    /\ IF ~ok
         THEN UNCHANGED <<templates, draftVars>>
         ELSE /\ templates' = removeById(templates, t.id)
              /\ IF activeId(active) = t.id
                   THEN ResetEditor
                   ELSE UNCHANGED draftVars
    /\ Handled
    /\ ev' = Event("delete", t.id, ok, NoItem)
    /\ alertMsg' = ""
    /\ UNCHANGED <<viewVars, reading>>
    /\ Effects

\* newTemplate: the New button
newTemplate ==
  /\ ResetEditor
  /\ showLibrary' = FALSE
  /\ Handled
  /\ ev' = Event("new", "", TRUE, NoItem)
  /\ alertMsg' = ""
  /\ UNCHANGED <<templates, search, tagFilter, reading>>
  /\ Effects

\* setShowLibrary(s=>!s): the Show/Hide Library button
ToggleLibrary ==
  /\ showLibrary' = ~showLibrary
  /\ Handled
  /\ ev' = Event("toggleLibrary", "", TRUE, NoItem)
  /\ alertMsg' = ""
  /\ UNCHANGED <<templates, draftVars, search, tagFilter, reading>>
  /\ Effects

\* ------------------------------------------------------------------- import
\* A faulty import that applies the file within the click handler, as if the
\* read were synchronous;
\* C10 does not hold with it.
importTemplatesSync ==
  \E file \in ImportFiles :
    /\ Handled
    /\ IF file.kind = "json" /\ file.array
         THEN templates' = file.val
         ELSE UNCHANGED templates
    /\ ev' = Event("import", "", TRUE, file)
    /\ alertMsg' = ""
    /\ UNCHANGED <<draftVars, viewVars, reading>>
    /\ Effects

\* importTemplates(file): a FileReader is created and reader.readAsText(file)
\* is called; the handler returns and onload runs when the read has finished.
startRead(rd, file) == Append(rd, file)

importTemplates ==
  \E file \in ImportFiles :
    /\ reading' = startRead(reading, file)
    /\ Handled
    /\ ev' = Event("import", "", TRUE, file)
    /\ alertMsg' = ""
    /\ UNCHANGED <<templates, draftVars, viewVars>>
    /\ Effects

\* A faulty check that leaves out Array.isArray;
\* C6 does not hold with it.
importAcceptsAnyJson(file) == file.kind = "json"

\* Array.isArray(JSON.parse(reader.result)); a parse failure throws too
importAccepts(file) == file.kind = "json" /\ file.array

\* 'Import failed: '+e.message
importFailure(file) ==
  IF file.kind = "json" THEN "Import failed: Invalid file"
  ELSE "Import failed: SyntaxError"

\* reader.onload
readerOnload ==
  \E i \in 1..Len(reading) :
    LET file == reading[i] IN
    /\ reading' = SubSeq(reading, 1, i - 1) \o SubSeq(reading, i + 1, Len(reading))
    /\ IF importAccepts(file)
         THEN /\ templates' = file.val
              /\ alertMsg' = ""
         ELSE /\ UNCHANGED templates
              /\ alertMsg' = importFailure(file)
    /\ Handled
    /\ ev' = Event("onload", "", importAccepts(file), file)
    /\ UNCHANGED <<draftVars, viewVars>>
    /\ Effects

\* ------------------------------------------------------------- environment
\* The page is loaded again: every useState initialiser runs against what
\* localStorage holds; reads still in flight are dropped with the old page.
Reload ==
  /\ Mount(lsTemplates, lsLast)
  /\ ev' = Event("reload", "", TRUE, NoItem)
  /\ Handled

Next ==
  \/ SetName \/ AddTag \/ RemoveTag \/ SetContext \/ SetTask \/ SetFormat
  \/ SetRules \/ SetExamples
  \/ saveTemplate \/ applyTemplate \/ deleteTemplate \/ newTemplate
  \/ ToggleLibrary \/ importTemplates \/ readerOnload \/ Reload

Spec == Init /\ [][Next]_vars

\* ----------------------------------------------------------------- assembled
HeaderContext == <<"C","o","n","t","e","x","t",":">>
HeaderTask == <<"T","a","s","k",":">>
HeaderRules == <<"R","u","l","e","s",":">>
HeaderFormat == <<"F","o","r","m","a","t",":">>
HeaderExamples == <<"E","x","a","m","p","l","e","s",":">>

\* A faulty section that pushes its separator line even when the content is
\* empty;
\* C9 does not hold with it.
textSectionStraySeparator(header, content) ==
  IF content # <<>> THEN <<header, trim(content), <<>>>> ELSE <<<<>>>>

\* if(context){ lines.push('Context:'); lines.push(context.trim()); lines.push(''); }
textSection(header, content) ==
  IF content # <<>> THEN <<header, trim(content), <<>>>> ELSE <<>>

\* if(rules?.length){ lines.push('Rules:'); rules.forEach(r=>lines.push(`- ${r}`)); lines.push(''); }
listSection(header, items) ==
  IF Len(items) > 0
    THEN <<header>> \o [i \in 1..Len(items) |-> <<"-", " ">> \o items[i]] \o <<<<>>>>
    ELSE <<>>

\* The array lines at the end of the useMemo callback.
assembledLines(c, tk, r, f, e) ==
  textSection(HeaderContext, c) \o textSection(HeaderTask, tk)
    \o listSection(HeaderRules, r) \o textSection(HeaderFormat, f)
    \o listSection(HeaderExamples, e)

\* const assembled = useMemo(...): lines.join('\n').trim()
assembled(c, tk, r, f, e) == trim(join(assembledLines(c, tk, r, f, e), <<"\n">>))

\* ------------------------------------------------------------ library queries
\* The tags of the quick-filter chips (allTags; the order in which the chips
\* are drawn is not modelled).
allTags(ts) ==
  UNION {{ts[i].tags[j] : j \in 1..Len(ts[i].tags)} : i \in 1..Len(ts)}

\* Templates of a library to search in.
FT(id, nm, tg, ctx, rl) ==
  [id |-> id, name |-> nm, tags |-> tg, context |-> ctx, task |-> <<>>,
   rules |-> rl, format |-> <<>>, examples |-> <<>>]
F1 == FT("f1", <<"A", "b">>, <<<<"T", "a", "g">>>>, <<"c">>, <<>>)
F2 == FT("f2", <<"b">>, <<>>, <<>>, <<<<"x", "a">>>>)
F3 == FT("f3", <<"A">>, <<<<"t">>, <<"G">>>>, <<>>, <<>>)

\* The libraries searched, the texts typed into the search box and the texts
\* typed into the tag box.
FilterCollections == {<<>>, <<F1, F2, F3>>, <<F3, F1>>, DEFAULT_TEMPLATES}
Queries ==
  {<<>>, <<" ">>, <<"a">>, <<"A", " ">>, <<"b", " ", "c">>, <<"x", "a", " ">>,
   <<"c","o","d","e">>}
TagQueries == {<<>>, <<" ">>, <<"t">>, <<"G", " ">>, <<"a", "g">>}

\* The variables a change of the library's queries leaves alone.
QueryFrame(op) ==
  /\ Handled
  /\ ev' = Event(op, "", TRUE, NoItem)
  /\ alertMsg' = ""
  /\ UNCHANGED <<templates, draftVars, showLibrary, reading>>
  /\ Effects

\* onChange of the search box
SetSearch ==
  \E q \in Queries :
    /\ showLibrary
    /\ search' = q
    /\ UNCHANGED tagFilter
    /\ QueryFrame("setSearch")

\* onChange of the tag box
SetTagFilter ==
  \E g \in TagQueries :
    /\ showLibrary
    /\ tagFilter' = g
    /\ UNCHANGED search
    /\ QueryFrame("setTagFilter")

\* onClick of a quick-filter chip
PickTag ==
  \E t \in allTags(templates) :
    /\ showLibrary
    /\ tagFilter' = t
    /\ UNCHANGED search
    /\ QueryFrame("pickTag")

\* The library after an import of one of the collections, with some queries
\* typed in.
InitFilter ==
  \E ts \in FilterCollections, q \in Queries, g \in TagQueries :
    /\ templates = ts
    /\ active = <<>>
    /\ name = <<>> /\ tags = <<>> /\ context = <<>> /\ task = <<>>
    /\ rules = <<>> /\ format = <<>> /\ examples = <<>>
    /\ search = q /\ tagFilter = g /\ showLibrary = TRUE
    /\ lsTemplates = templatesEffect(templates)
    /\ lsLast = lastEffect(active, name, tags, context, task, rules, format,
                           examples)
    /\ reading = <<>>
    /\ alertMsg = ""
    /\ events = 0
    /\ ev = Mounted

NextFilter == SetSearch \/ SetTagFilter \/ PickTag

SpecFilter == InitFilter /\ [][NextFilter]_vars

\* --------------------------------------------------------- drafts to assemble
\* Texts typed into the context/task/format textareas and into the
\* rules/examples textareas.
AssembleTexts ==
  {<<>>, <<" ">>, <<"a", " ">>, <<"T","a","s","k",":">>, <<"a", "\n", "\n", "b">>}
AssembleLists == {<<>>, <<"r">>, <<" ", "r", "\n", " ", "\n", "s">>}

\* A Draft typed into an empty editor.
InitAssemble ==
  \E c \in AssembleTexts, tk \in AssembleTexts, f \in AssembleTexts,
     r \in AssembleLists, e \in AssembleLists :
    /\ templates = DEFAULT_TEMPLATES
    /\ active = <<>>
    /\ name = <<>> /\ tags = <<>>
    /\ context = c /\ task = tk /\ format = f
    /\ rules = listItems(r) /\ examples = listItems(e)
    /\ search = <<>> /\ tagFilter = <<>> /\ showLibrary = TRUE
    /\ lsTemplates = templatesEffect(templates)
    /\ lsLast = lastEffect(active, name, tags, context, task, rules, format,
                           examples)
    /\ reading = <<>>
    /\ alertMsg = ""
    /\ events = 0
    /\ ev = Mounted

NextAssemble ==
  \/ SetContext \/ SetTask \/ SetFormat \/ SetRules \/ SetExamples
  \/ newTemplate

SpecAssemble == InitAssemble /\ [][NextAssemble]_vars

\* ================================================================== claims
\* Helpers of the statements below; none of them is used by the model above.

\* The Template the spec says save() builds from the Draft: the Draft's fields
\* under the given id, an empty name replaced by "Untitled".
DraftAsTemplate(id) ==
  [id |-> id,
   name |-> IF Len(name) = 0 THEN <<"U","n","t","i","t","l","e","d">> ELSE name,
   tags |-> tags, context |-> context, task |-> task, rules |-> rules,
   format |-> format, examples |-> examples]

\* The positions of ts that hold a template with the given id.
PositionsOf(ts, id) == {i \in 1..Len(ts) : ts[i].id = id}

\* The Draft is linked to a stored id: the link is set and is not the sentinel.
IsLinked == activeId(active) # "" /\ activeId(active) # "unsaved"

\* The Draft's link as the persisted draft document names it.
LinkOf(a) == IF activeId(a) = "" THEN "unsaved" ELSE activeId(a)

DraftEmpty ==
  /\ Len(name) = 0 /\ Len(tags) = 0 /\ Len(context) = 0 /\ Len(task) = 0
  /\ Len(rules) = 0 /\ Len(format) = 0 /\ Len(examples) = 0

\* ts without the templates at the positions in gone, order kept.
RECURSIVE Dropping(_, _, _)
Dropping(ts, gone, i) ==
  IF i > Len(ts) THEN <<>>
  ELSE (IF i \in gone THEN <<>> ELSE <<ts[i]>>) \o Dropping(ts, gone, i + 1)

\* C1: in every reachable state no two templates of the Repository collection
\* have the same id.
C1_UniqueIds ==
  \A i, j \in 1..Len(templates) : i # j => templates[i].id # templates[j].id

\* C2: in every state a later operation can observe (after the initial load
\* and after every event), the item stored under the templates key parses to
\* exactly the in-memory collection.
C2_PersistedEqualsMemory ==
  /\ lsTemplates.kind = "json"
  /\ lsTemplates.array
  /\ lsTemplates.val = templates

\* C2 witness: a save, a confirmed delete or a successful import has changed
\* the collection, and the stored item holds the changed collection.
C2_Witness ==
  /\ ev.op \in {"save", "delete", "onload"}
  /\ ev.ok
  /\ templates # DEFAULT_TEMPLATES
  /\ lsTemplates.val = templates

\* C3: a save of a Draft linked to a stored id replaces the one template with
\* that id by the Draft's fields at the same position, the length and every
\* other template unchanged; if no template has the linked id the new template
\* is inserted at index 0 and the existing templates keep their order.
C3_SaveReplacesOneInPlace ==
  [][(ev'.op = "save" /\ IsLinked) =>
       LET id == activeId(active)
           at == PositionsOf(templates, id)
       IN IF at # {}
            THEN /\ Len(templates') = Len(templates)
                 /\ \E k \in at :
                      /\ templates'[k] = DraftAsTemplate(id)
                      /\ \A i \in 1..Len(templates) :
                           i # k => templates'[i] = templates[i]
            ELSE templates' = <<DraftAsTemplate(id)>> \o templates]_vars

\* C3 restricted to saves made while the ids of the collection are unique.
C3_SaveReplacesWhenIdsUnique ==
  [][(ev'.op = "save" /\ IsLinked /\ C1_UniqueIds) =>
       LET id == activeId(active)
           at == PositionsOf(templates, id)
       IN IF at # {}
            THEN /\ Len(templates') = Len(templates)
                 /\ \E k \in at :
                      /\ templates'[k] = DraftAsTemplate(id)
                      /\ \A i \in 1..Len(templates) :
                           i # k => templates'[i] = templates[i]
            ELSE templates' = <<DraftAsTemplate(id)>> \o templates]_vars

\* C4: a save of an Unsaved-New Draft (no link, or the sentinel) mints an id
\* no stored template has, so the collection grows by exactly one, the new
\* template (named "Untitled" if the Draft's name is empty) is at the front
\* and no existing template is overwritten.
C4_NewSaveMintsFreshId ==
  [][(ev'.op = "save" /\ ~IsLinked) =>
       /\ PositionsOf(templates, ev'.id) = {}
       /\ Len(templates') = Len(templates) + 1
       /\ templates' = <<DraftAsTemplate(ev'.id)>> \o templates
       /\ (Len(name) = 0 =>
             templates'[1].name = <<"U","n","t","i","t","l","e","d">>)]_vars

\* C5: a confirmed delete(t) removes every template with t's id and leaves
\* the others in place and in order, and if t's id is the Draft's linked id the
\* Draft becomes Unsaved-New with every field empty; a declined delete changes
\* neither the Repository nor the Draft.
C5_Delete ==
  [][ev'.op = "delete" =>
       IF ev'.ok
         THEN /\ PositionsOf(templates', ev'.id) = {}
              /\ templates' = Dropping(templates, PositionsOf(templates, ev'.id), 1)
              /\ (activeId(active) = ev'.id => (active' = <<>> /\ DraftEmpty'))
         ELSE /\ templates' = templates
              /\ lsTemplates' = lsTemplates
              /\ draftVars' = draftVars]_vars

\* C5 witness: the template the Draft was linked to has been deleted with the
\* confirmation accepted.
C5_Witness ==
  /\ ev.op = "delete" /\ ev.ok /\ ev.link = ev.id
  /\ active = <<>> /\ DraftEmpty
  /\ Len(templates) = 2

\* C6: when a read completes, the collection is replaced by the parsed value
\* if and only if the contents parse as JSON with an array at the top; in
\* every other case the collection, its stored copy, the Draft and its stored
\* copy are unchanged and a failure message is shown.
C6_Import ==
  [][ev'.op = "onload" =>
       IF ev'.file.kind = "json" /\ ev'.file.array
         THEN /\ templates' = ev'.file.val
              /\ alertMsg' = ""
         ELSE /\ templates' = templates
              /\ lsTemplates' = lsTemplates
              /\ draftVars' = draftVars
              /\ lsLast' = lsLast
              /\ alertMsg' # ""]_vars

\* C6 witness: a file holding a JSON object (not an array) has been read: the
\* seed collection is still there and the failure message is on screen.
C6_Witness ==
  /\ ev.op = "onload"
  /\ ev.file.kind = "json" /\ ~ev.file.array
  /\ templates = DEFAULT_TEMPLATES
  /\ alertMsg = "Import failed: Invalid file"

\* C7: a reload yields a Draft with the same name, tags, context, task, rules,
\* format and examples as just before it, linked to the same id (unsaved if
\* there was none), whether or not the Draft had been saved.
C7_ReloadKeepsDraft ==
  [][ev'.op = "reload" =>
       /\ name' = name /\ tags' = tags /\ context' = context /\ task' = task
       /\ rules' = rules /\ format' = format /\ examples' = examples
       /\ LinkOf(active') = LinkOf(active)]_vars

\* C7 witness: after a reload the Draft holds an edit that no stored template
\* holds, so it survived without a save.
C7_Witness ==
  /\ ev.op = "reload"
  /\ context = <<"x">>
  /\ \A i \in 1..Len(templates) : templates[i].context # <<"x">>

\* The events the original C10 says cannot take effect while an import runs.
DraftOrRepositoryOps ==
  {"save", "delete", "new", "apply", "setName", "addTag", "removeTag",
   "setContext", "setTask", "setFormat", "setRules", "setExamples"}

\* C10 as stated: between the start of an import and its completion no save,
\* delete, field edit, new or apply takes effect.
C10_NoEventDuringImport ==
  [][reading # <<>> => ev'.op \notin DraftOrRepositoryOps]_vars

\* C10 as amended: choosing a file only starts a read and changes neither the
\* collection, the Draft nor what is stored; a read stays in flight across
\* any other event until its own onload (or a reload) ends it; and onload
\* replaces the whole collection, whatever happened since the read started.
C10_ImportIsTwoEvents ==
  [][/\ (ev'.op = "import" =>
           /\ reading' = Append(reading, ev'.file)
           /\ templates' = templates /\ lsTemplates' = lsTemplates
           /\ draftVars' = draftVars /\ lsLast' = lsLast)
     /\ (ev'.op \notin {"import", "onload", "reload"} => reading' = reading)
     /\ (ev'.op = "onload" =>
           /\ Len(reading') = Len(reading) - 1
           /\ (ev'.ok => templates' = ev'.file.val))]_vars

\* C10 witness: a save has taken effect while a read was in flight.
C10_Witness ==
  /\ ev.op = "save"
  /\ reading # <<>>
  /\ Len(templates) = 4

\* ------------------------------------------------------ C8: the library filter
\* The query is blank: empty or nothing but whitespace.
Blank(q) == \A i \in 1..Len(q) : q[i] \in Whitespace

\* Two characters are the same letter, case ignored.
SameLetter(c, d) == lowerChar(c) = lowerChar(d)

\* q occurs in s as a substring, case ignored.
ContainsIgnoringCase(s, q) ==
  \E k \in 0..(Len(s) - Len(q)) : \A i \in 1..Len(q) : SameLetter(s[k + i], q[i])

\* Each item preceded by one space.
RECURSIVE Spaced(_)
Spaced(items) ==
  IF Len(items) = 0 THEN <<>> ELSE <<" ">> \o items[1] \o Spaced(Tail(items))

\* The template's searchable text: name, context, task, format, every rule
\* and every example, in that order, one space between neighbours.
SearchText(t) ==
  t.name \o <<" ">> \o t.context \o <<" ">> \o t.task \o <<" ">> \o t.format
    \o Spaced(t.rules) \o Spaced(t.examples)

\* q without the whitespace at its two ends.
Stripped(q) ==
  LET inner == {i \in 1..Len(q) : q[i] \notin Whitespace} IN
  IF inner = {} THEN <<>>
  ELSE SubSeq(q, CHOOSE i \in inner : \A j \in inner : i <= j,
                 CHOOSE i \in inner : \A j \in inner : j <= i)

\* C8 as stated: the query itself, as typed, must occur in the text or tag.
PassesTextAsTyped(t, q) == Blank(q) \/ ContainsIgnoringCase(SearchText(t), q)
PassesTagAsTyped(t, g) ==
  Blank(g) \/ \E i \in 1..Len(t.tags) : ContainsIgnoringCase(t.tags[i], g)

\* C8 as stated: filter returns exactly the templates that pass the text
\* filter (q blank, or q contained case-insensitively in the searchable text)
\* and the tag filter (g blank, or g contained case-insensitively in a tag),
\* in the Repository's order; with both queries blank, the whole collection.
C8_FilterMatchesQueryAsTyped ==
  LET pass(t) == PassesTextAsTyped(t, search) /\ PassesTagAsTyped(t, tagFilter)
      failing == {i \in 1..Len(templates) : ~pass(templates[i])}
  IN /\ filtered(templates, search, tagFilter) = Dropping(templates, failing, 1)
     /\ (Blank(search) /\ Blank(tagFilter) =>
           filtered(templates, search, tagFilter) = templates)

\* C8 as amended: the queries are matched after the whitespace at their ends
\* is removed.
PassesText(t, q) ==
  Blank(q) \/ ContainsIgnoringCase(SearchText(t), Stripped(q))
PassesTag(t, g) ==
  Blank(g) \/ \E i \in 1..Len(t.tags) : ContainsIgnoringCase(t.tags[i], Stripped(g))

\* C8 as amended: filter returns exactly the templates that pass both filters,
\* in the Repository's order, where a query passes if it is blank or if the
\* query without its leading and trailing whitespace is contained, case
\* ignored, in the searchable text (in a tag, for the tag query); with both
\* queries blank it returns the whole collection.
C8_FilterMatchesTrimmedQuery ==
  LET pass(t) == PassesText(t, search) /\ PassesTag(t, tagFilter)
      failing == {i \in 1..Len(templates) : ~pass(templates[i])}
  IN /\ filtered(templates, search, tagFilter) = Dropping(templates, failing, 1)
     /\ (Blank(search) /\ Blank(tagFilter) =>
           filtered(templates, search, tagFilter) = templates)

\* C8 witness: both queries end in a space and differ in case from what they
\* match; the filter keeps the first and third of three templates.
C8_Witness ==
  /\ templates = <<F1, F2, F3>>
  /\ search = <<"A", " ">>
  /\ tagFilter = <<"G", " ">>
  /\ filtered(templates, search, tagFilter) = <<F1, F3>>

\* --------------------------------------------------------- C9: the assembler
\* The lines of a text.
RECURSIVE LinesFrom(_, _)
LinesFrom(s, cur) ==
  IF Len(s) = 0 THEN <<cur>>
  ELSE IF s[1] = "\n" THEN <<cur>> \o LinesFrom(Tail(s), <<>>)
  ELSE LinesFrom(Tail(s), cur \o <<s[1]>>)
LinesOf(s) == LinesFrom(s, <<>>)

\* The five headers in their fixed order.
Headers ==
  <<<<"C","o","n","t","e","x","t",":">>, <<"T","a","s","k",":">>,
    <<"R","u","l","e","s",":">>, <<"F","o","r","m","a","t",":">>,
    <<"E","x","a","m","p","l","e","s",":">>>>

\* Whether the Draft has content for each of the five sections.
Filled ==
  <<Len(context) > 0, Len(task) > 0, Len(rules) > 0, Len(format) > 0,
    Len(examples) > 0>>

\* The lines a section's content takes: those of the text without the
\* whitespace at its ends, or one per item after its "- ".
RECURSIVE ItemLines(_)
ItemLines(items) ==
  IF Len(items) = 0 THEN <<>>
  ELSE LinesOf(<<"-", " ">> \o items[1]) \o ItemLines(Tail(items))
ContentLines ==
  <<LinesOf(Stripped(context)), LinesOf(Stripped(task)), ItemLines(rules),
    LinesOf(Stripped(format)), ItemLines(examples)>>

\* The lines, among ls, that are the header h.
HeaderAt(ls, h) == {i \in 1..Len(ls) : ls[i] = h}

\* The lines the filled sections account for: a header, the content and a
\* separator each.
LinesOwed(filled, content) ==
  LET owed(k) == IF filled[k] THEN Len(content[k]) + 2 ELSE 0
  IN owed(1) + owed(2) + owed(3) + owed(4) + owed(5)

\* Every header occurs once if its section is filled and not at all if it is
\* empty, the headers are in the fixed order, an empty section adds no line,
\* and a Draft with five empty sections assembles to the empty string.
HeadersOnceInOrder ==
  LET out == assembled(context, task, rules, format, examples)
      ls == IF Len(out) = 0 THEN <<>> ELSE LinesOf(out)
      filled == Filled
      at == [k \in 1..5 |-> HeaderAt(ls, Headers[k])]
  IN /\ \A k \in 1..5 : Cardinality(at[k]) = IF filled[k] THEN 1 ELSE 0
     /\ \A k, l \in 1..5 : k < l => \A i \in at[k], j \in at[l] : i < j
     /\ ((\E k \in 1..5 : filled[k]) => Len(ls) < LinesOwed(filled, ContentLines))
     /\ ((\A k \in 1..5 : ~filled[k]) => Len(out) = 0)

NoHeaderInContent ==
  LET content == ContentLines IN
  \A k \in 1..5 : \A i \in 1..Len(content[k]) : \A l \in 1..5 :
    content[k][i] # Headers[l]

====
